---- MODULE Spec2Model ----
(***************************************************************************)
(* Server actions of app/lib/actions.ts: createInvoice, updateInvoice,     *)
(* deleteInvoice, authenticate, createCustomer, updateCustomer.            *)
(*                                                                         *)
(* Each invocation is a request that runs the action's code: a synchronous *)
(* prefix (schema validation), one awaited storage statement, and a        *)
(* synchronous suffix (revalidatePath, redirect).  The relational store,   *)
(* the page cache and the sign-in provider are the collaborators; what     *)
(* they answer is chosen nondeterministically.                             *)
(*                                                                         *)
(* Numbers: a form amount is a decimal string; Number() is modelled by     *)
(* ParseNumber, which yields the value in units of 1/Scale (three decimal  *)
(* digits).  Products are exact; the rounding of IEEE doubles is not       *)
(* modelled.                                                               *)
(***************************************************************************)
EXTENDS Integers, Sequences, FiniteSets, TLC

\* ------------------------------------------------------------------ bounds
\* total number of invocations in a behaviour
MaxCalls == 2
\* last calendar day the clock reaches
MaxDay == 2
\* concurrent requests
Requests == {"r1", "r2"}
\* primary keys the store can hold
InvoiceIds == {"i1", "i2"}
CustomerIds == {"c1", "c2"}
\* identifiers a caller may pass in the path (i9 and c9 never match a row)
PathInvoiceIds == {"i1", "i9"}
PathCustomerIds == {"c1", "c9"}

\* ------------------------------------------------------------ form values
\* FormData.get(name): null when the field is absent, else the string
Null == [present |-> FALSE, text |-> <<>>]
Str(s) == [present |-> TRUE, text |-> s]

Digits == <<"0", "1", "2", "3", "4", "5", "6", "7", "8", "9">>
IsDigit(c) == \E i \in 1..10 : Digits[i] = c
DigitVal(c) == (CHOOSE i \in 1..10 : Digits[i] = c) - 1
IsSpace(c) == c = " "

RECURSIVE TrimLeft(_)
TrimLeft(s) == IF s # <<>> /\ IsSpace(Head(s)) THEN TrimLeft(Tail(s)) ELSE s
RECURSIVE TrimRight(_)
TrimRight(s) ==
    IF s # <<>> /\ IsSpace(s[Len(s)]) THEN TrimRight(SubSeq(s, 1, Len(s) - 1)) ELSE s
\* String.prototype.trim, as zod's .trim() applies it
Trim(s) == TrimRight(TrimLeft(s))

RECURSIVE DigitsValue(_)
DigitsValue(s) ==
    IF s = <<>> THEN 0 ELSE 10 * DigitsValue(SubSeq(s, 1, Len(s) - 1)) + DigitVal(s[Len(s)])
AllDigits(s) == \A i \in 1..Len(s) : IsDigit(s[i])
Pow10(n) == IF n = 0 THEN 1 ELSE IF n = 1 THEN 10 ELSE IF n = 2 THEN 100 ELSE 1000
\* fixed-point resolution of a parsed number: the value 1 is Scale units
Scale == Pow10(3)
DotAt(s) == IF \E i \in 1..Len(s) : s[i] = "." THEN CHOOSE i \in 1..Len(s) : s[i] = "." ELSE 0

NaN == [nan |-> TRUE, v |-> 0]
Num(v) == [nan |-> FALSE, v |-> v]

\* an unsigned decimal literal: digits, optionally "." and up to three digits
UnsignedNumber(s) ==
    LET d == DotAt(s)
        ip == IF d = 0 THEN s ELSE SubSeq(s, 1, d - 1)
        fp == IF d = 0 THEN <<>> ELSE SubSeq(s, d + 1, Len(s))
    IN IF (ip = <<>> /\ fp = <<>>) \/ ~AllDigits(ip) \/ ~AllDigits(fp) \/ Len(fp) > 3
       THEN NaN
       ELSE Num(DigitsValue(ip) * Scale + DigitsValue(fp) * Pow10(3 - Len(fp)))

\* Number(x) as z.coerce.number() calls it: null -> 0, "" and blank -> 0,
\* a decimal literal -> its value, anything else -> NaN
ParseNumber(raw) ==
    IF ~raw.present THEN Num(0)
    ELSE LET s == Trim(raw.text)
         IN IF s = <<>> THEN Num(0)
            ELSE IF Head(s) = "-"
                 THEN LET u == UnsignedNumber(Tail(s))
                      IN IF u.nan THEN NaN ELSE Num(0 - u.v)
                 ELSE UnsignedNumber(s)

\* ---------------------------------------------------------------- schemas
Fields == {"customerId", "amount", "status", "name", "email"}
NoErrors == [f \in Fields |-> <<>>]
HasError(errs, f) == errs[f] # <<>>
AnyError(errs) == \E f \in Fields : HasError(errs, f)

\* name: .min(3) and .max(20)
NameMin == 3
NameMax == 20

\* customerId: z.string({invalid_type_error})
CustomerIdIssues(raw) == IF raw.present THEN <<>> ELSE <<"Please select a customer.">>

\* AmountIssues with .gte(0) in place of .gt(0)
AmountIssuesGte(raw) ==
    LET n == ParseNumber(raw)
    IN IF n.nan THEN <<"Expected number, received nan">>
       ELSE IF n.v >= 0 THEN <<>>
       ELSE <<"Please enter an amount greater than $0.">>

\* amount: z.coerce.number().gt(0, {message})
AmountIssues(raw) ==
    LET n == ParseNumber(raw)
    IN IF n.nan THEN <<"Expected number, received nan">>
       ELSE IF n.v > 0 THEN <<>>
       ELSE <<"Please enter an amount greater than $0.">>

InvoiceStatuses == {"pending", "paid"}
\* StatusIssues with z.string() in place of z.enum([...])
StatusIssuesAnyString(raw) ==
    IF ~raw.present THEN <<"Please select an invoice status.">> ELSE <<>>

\* status: z.enum(["pending", "paid"], {invalid_type_error})
StatusIssues(raw) ==
    IF ~raw.present THEN <<"Please select an invoice status.">>
    ELSE IF raw.text \in InvoiceStatuses THEN <<>>
    ELSE <<"Invalid enum value.">>

\* name: z.string({...}).trim().min(3, ...).max(20, ...)
NameIssues(raw) ==
    IF ~raw.present THEN <<"Name must be a string">>
    ELSE LET s == Trim(raw.text)
         IN IF Len(s) < NameMin THEN <<"Must be 2 or more characters long">>
            ELSE IF Len(s) > NameMax THEN <<"Must be 20 or fewer characters long">>
            ELSE <<>>

Count(s, c) == Cardinality({i \in 1..Len(s) : s[i] = c})
\* the shape .email() accepts: local@label.label, no blanks, one "@"
IsEmail(s) ==
    /\ Count(s, "@") = 1
    /\ Count(s, " ") = 0
    /\ LET at == CHOOSE i \in 1..Len(s) : s[i] = "@"
           dom == SubSeq(s, at + 1, Len(s))
       IN /\ at > 1
          /\ s[1] # "." /\ s[at - 1] # "."
          /\ Len(dom) >= 3
          /\ dom[1] # "." /\ dom[Len(dom)] # "."
          /\ Count(dom, ".") >= 1
          /\ \A i \in 1..(Len(dom) - 1) : ~(dom[i] = "." /\ dom[i + 1] = ".")

\* email: z.string({...}).trim().email({message})
EmailIssues(raw) ==
    IF ~raw.present THEN <<"Email must be a string">>
    ELSE IF IsEmail(Trim(raw.text)) THEN <<>>
    ELSE <<"Invalid email address">>

NoForm == [customerId |-> Null, amount |-> Null, status |-> Null, name |-> Null, email |-> Null]
InvoiceForm(c, a, s) == [NoForm EXCEPT !.customerId = c, !.amount = a, !.status = s]
CustomerForm(n, e) == [NoForm EXCEPT !.name = n, !.email = e]

NoData ==
    [customerId |-> "", amount |-> 0, amountInCents |-> 0, status |-> "", date |-> 0,
     name |-> <<>>, email |-> <<>>]

\* FormSchema.omit({id, date}).safeParse({customerId, amount, status})
ParseInvoice(form) ==
    LET errs == [NoErrors EXCEPT !["customerId"] = CustomerIdIssues(form.customerId),
                                 !["amount"] = AmountIssues(form.amount),
                                 !["status"] = StatusIssues(form.status)]
    IN [success |-> ~AnyError(errs),
        errors |-> errs,
        data |-> IF AnyError(errs) THEN NoData
                 ELSE [NoData EXCEPT !.customerId = form.customerId.text,
                                     !.amount = ParseNumber(form.amount).v,
                                     !.status = form.status.text]]

\* FormCustomerSchema.omit({id, image}).safeParse({name, email})
ParseCustomer(form) ==
    LET errs == [NoErrors EXCEPT !["name"] = NameIssues(form.name),
                                 !["email"] = EmailIssues(form.email)]
    IN [success |-> ~AnyError(errs),
        errors |-> errs,
        data |-> IF AnyError(errs) THEN NoData
                 ELSE [NoData EXCEPT !.name = Trim(form.name.text),
                                     !.email = Trim(form.email.text)]]

InvoiceActions == {"createInvoice", "updateInvoice", "deleteInvoice"}
CustomerActions == {"createCustomer", "updateCustomer"}
FormActions == {"createInvoice", "updateInvoice", "createCustomer", "updateCustomer"}
StorageActions == InvoiceActions \cup CustomerActions

\* CreateInvoice / UpdateInvoice / CreateCustomer / UpdateCustomer .safeParse
SafeParse(fn, form) ==
    IF fn \in InvoiceActions THEN ParseInvoice(form) ELSE ParseCustomer(form)

\* the summary message returned beside the field errors
ValidationMessage(fn) ==
    CASE fn = "createInvoice" -> "Missing Fields. Failed to Create Invoice."
      [] fn = "updateInvoice" -> "Missing Fields. Failed to Update Invoice."
      [] fn = "createCustomer" -> "Missing Fields. Failed to Add Customer"
      [] fn = "updateCustomer" -> "Missing Fields. Failed to Add Customer"

\* the message returned from the catch block around the statement
DatabaseErrorMessage(fn) ==
    CASE fn = "createInvoice" -> "Database Error: Failed to Create Invoice."
      [] fn = "updateInvoice" -> "Database Error: Failed to Update Invoice."
      [] fn = "deleteInvoice" -> "Database Error: Failed to Delete Invoice."
      [] fn = "createCustomer" -> "Database Error: Failed to Add Customer."
      [] fn = "updateCustomer" -> "Database Error: Failed to Update Invoice."

\* the path handed to revalidatePath
RevalidatedPath(fn) ==
    IF fn \in InvoiceActions THEN "/dashboard/invoices" ELSE "/dashboard/customers"

\* RedirectPath with the invoices path pasted into the customer actions
RedirectPathPasted(fn) == "/dashboard/invoices"

\* the path handed to redirect
RedirectPath(fn) ==
    IF fn \in InvoiceActions THEN "/dashboard/invoices" ELSE "/dashboard/customers"

\* const amountInCents = amount * 100
AmountInCents(amount) == amount * 100

\* ------------------------------------------------------------------ state
VARIABLES
    invoices,   \* table invoices: id -> [customer_id, amount, status, date]
    customers,  \* table customers: id -> [name, email]
    stale,      \* page paths marked as needing fresh data
    today,      \* the calendar day new Date() reads
    req,        \* per request: the invocation it runs and where it stands; awaited is
                \* the state of the promise it awaits, wrote whether its statement
                \* changed a table
    ncalls      \* invocations started so far

vars == <<invoices, customers, stale, today, req, ncalls>>

NoResult == [kind |-> "pending", hasErrors |-> FALSE, errors |-> NoErrors, message |-> ""]
\* return { errors, message }
ErrorsResult(errs, msg) ==
    [kind |-> "object", hasErrors |-> TRUE, errors |-> errs, message |-> msg]
\* return { message }
MessageResult(msg) ==
    [kind |-> "object", hasErrors |-> FALSE, errors |-> NoErrors, message |-> msg]
\* return '...' (authenticate)
StringResult(msg) == [NoResult EXCEPT !.kind = "string", !.message = msg]
\* the function ends without a return statement
UndefinedResult == [NoResult EXCEPT !.kind = "undefined"]
\* redirect() ends the action by its control-transfer exception
RedirectResult(path) == [NoResult EXCEPT !.kind = "redirect", !.message = path]
\* an exception leaves the action
ThrowResult == [NoResult EXCEPT !.kind = "throw"]

Idle ==
    [pc |-> "Idle", fn |-> "none", id |-> "", form |-> NoForm, data |-> NoData,
     awaited |-> "none", wrote |-> FALSE, result |-> NoResult, effects |-> <<>>]

Terminal == {"ValidationFailed", "PersistenceFailed", "Redirected", "Returned", "Thrown"}
\* code between two awaits runs to completion before any other request's code,
\* and so does handing the outcome to the caller
Synchronous == {"Validating", "Invalidated"} \cup Terminal
Quiet(r) == \A q \in Requests \ {r} : req[q].pc \notin Synchronous
AllQuiet == \A q \in Requests : req[q].pc \notin Synchronous

Effect(call, arg) == [call |-> call, arg |-> arg]

\* the invocation is over: its arguments and locals are gone, what it returned
\* and what it called remain
Ended(rec, pc, result) ==
    [rec EXCEPT !.pc = pc, !.result = result, !.id = "", !.form = NoForm, !.data = NoData]

\* ----------------------------------------------------------------- inputs
\* what a browser may submit, field by field
CustomerIdInputs == {Null, Str("c2")}
AmountInputs ==
    {Null, Str(<<>>), Str(<<"a">>), Str(<<"-", "1">>), Str(<<"0">>),
     Str(<<"4", "5", ".", "0", "0">>), Str(<<"0", ".", "0", "0", "5">>)}
StatusInputs == {Null, Str("pending"), Str("paid"), Str("draft")}
LongName == [i \in 1..(NameMax + 1) |-> "x"]
NameInputs ==
    {Null, Str(<<"a", "b">>), Str(<<" ", "a", "b", " ">>), Str(<<" ", "a", "b", "c", " ">>),
     Str(<<"a", "n", "n">>), Str(LongName)}
EmailInputs == {Null, Str(<<"a", "@", "b">>), Str(<<" ", "a", "@", "b", ".", "c">>)}

\* the submitted forms: a well-formed form with at most one field replaced, and
\* forms wrong in every field
GoodInvoiceForm == InvoiceForm(Str("c2"), Str(<<"4", "5", ".", "0", "0">>), Str("paid"))
GoodCustomerForm == CustomerForm(Str(<<" ", "a", "b", "c", " ">>), Str(<<" ", "a", "@", "b", ".", "c">>))
Differing(f, g) == Cardinality({k \in Fields : f[k] # g[k]})
InvoiceForms ==
    {f \in {InvoiceForm(c, a, s) : c \in CustomerIdInputs, a \in AmountInputs, s \in StatusInputs} :
        \/ Differing(f, GoodInvoiceForm) <= 1
        \/ f = InvoiceForm(Null, Null, Null)
        \/ f = InvoiceForm(Str("c2"), Str(<<"-", "1">>), Str("draft"))}
CustomerForms ==
    {f \in {CustomerForm(n, e) : n \in NameInputs, e \in EmailInputs} :
        \/ Differing(f, GoodCustomerForm) <= 1
        \/ f = CustomerForm(Null, Null)}

\* ------------------------------------------------------------- statements
\* INSERT INTO invoices (customer_id, amount, status, date) VALUES (...);
\* the store assigns the key
InsertInvoice(tbl, newId, d) ==
    tbl @@ (newId :> [customer_id |-> d.customerId, amount |-> d.amountInCents,
                      status |-> d.status, date |-> d.date])

\* UpdateInvoiceRow as an upsert: a row is made when none matches
UpdateInvoiceRowUpsert(tbl, id, d) ==
    [k \in DOMAIN tbl \cup {id} |->
        [customer_id |-> d.customerId, amount |-> d.amountInCents, status |-> d.status,
         date |-> IF k \in DOMAIN tbl THEN tbl[k].date ELSE d.date]]

\* UPDATE invoices SET customer_id, amount, status WHERE id = ...
UpdateInvoiceRow(tbl, id, d) ==
    IF id \in DOMAIN tbl
    THEN [tbl EXCEPT ![id] = [@ EXCEPT !.customer_id = d.customerId,
                                       !.amount = d.amountInCents,
                                       !.status = d.status]]
    ELSE tbl

\* DELETE FROM invoices WHERE id = ...
DeleteInvoiceRow(tbl, id) == [k \in DOMAIN tbl \ {id} |-> tbl[k]]

\* InsertCustomer with ON CONFLICT (id) DO UPDATE
InsertCustomerOverwrite(tbl, id, d) ==
    [k \in DOMAIN tbl \cup {id} |->
        IF k = id THEN [name |-> d.name, email |-> d.email] ELSE tbl[k]]

\* INSERT INTO customers (id, name, email) VALUES (...) ON CONFLICT (id) DO NOTHING
InsertCustomer(tbl, id, d) ==
    IF id \in DOMAIN tbl THEN tbl ELSE tbl @@ (id :> [name |-> d.name, email |-> d.email])

\* UPDATE customers SET name, email WHERE id = ...
UpdateCustomerRow(tbl, id, d) ==
    IF id \in DOMAIN tbl
    THEN [tbl EXCEPT ![id] = [@ EXCEPT !.name = d.name, !.email = d.email]]
    ELSE tbl

\* ---------------------------------------------------------------- actions
Start(r) ==
    /\ req[r].pc = "Idle"
    /\ ncalls < MaxCalls
    /\ Quiet(r)
    /\ ncalls' = ncalls + 1

\* createInvoice(prevState, formData) is entered
CallCreateInvoice(r) ==
    /\ Start(r)
    /\ \E form \in InvoiceForms :
         req' = [req EXCEPT ![r] = [Idle EXCEPT !.pc = "Validating",
                                                !.fn = "createInvoice", !.form = form]]
    /\ UNCHANGED <<invoices, customers, stale, today>>

\* updateInvoice(id, prevState, formData) is entered
CallUpdateInvoice(r) ==
    /\ Start(r)
    /\ \E id \in PathInvoiceIds, form \in InvoiceForms :
         req' = [req EXCEPT ![r] = [Idle EXCEPT !.pc = "Validating", !.fn = "updateInvoice",
                                                !.id = id, !.form = form]]
    /\ UNCHANGED <<invoices, customers, stale, today>>

\* deleteInvoice(id) is entered and awaits its statement
CallDeleteInvoice(r) ==
    /\ Start(r)
    /\ \E id \in PathInvoiceIds :
         req' = [req EXCEPT ![r] = [Idle EXCEPT !.pc = "Persisting", !.fn = "deleteInvoice",
                                                !.id = id, !.awaited = "pending",
                                                !.effects = <<Effect("sql", "DELETE")>>]]
    /\ UNCHANGED <<invoices, customers, stale, today>>

\* createCustomer(prevState, formData) is entered
CallCreateCustomer(r) ==
    /\ Start(r)
    /\ \E form \in CustomerForms :
         req' = [req EXCEPT ![r] = [Idle EXCEPT !.pc = "Validating",
                                                !.fn = "createCustomer", !.form = form]]
    /\ UNCHANGED <<invoices, customers, stale, today>>

\* updateCustomer(id, prevState, formData) is entered
CallUpdateCustomer(r) ==
    /\ Start(r)
    /\ \E id \in PathCustomerIds, form \in CustomerForms :
         req' = [req EXCEPT ![r] = [Idle EXCEPT !.pc = "Validating", !.fn = "updateCustomer",
                                                !.id = id, !.form = form]]
    /\ UNCHANGED <<invoices, customers, stale, today>>

\* if (!validatedFields.success) return { errors, message }
ValidationFails(r) ==
    /\ req[r].pc = "Validating"
    /\ LET v == SafeParse(req[r].fn, req[r].form)
       IN /\ ~v.success
          /\ req' = [req EXCEPT ![r] = Ended(@, "ValidationFailed",
                                               ErrorsResult(v.errors,
                                                            ValidationMessage(req[r].fn)))]
    /\ UNCHANGED <<invoices, customers, stale, today, ncalls>>

StatementKind(fn) ==
    CASE fn \in {"createInvoice", "createCustomer"} -> "INSERT"
      [] fn \in {"updateInvoice", "updateCustomer"} -> "UPDATE"
      [] fn = "deleteInvoice" -> "DELETE"

\* the data is prepared and the statement is sent: await sql`...`
ValidationPasses(r) ==
    /\ req[r].pc = "Validating"
    /\ LET fn == req[r].fn
           v == SafeParse(fn, req[r].form)
       IN /\ v.success
          /\ \E uuid \in CustomerIds :
               req' = [req EXCEPT
                         ![r].pc = "Persisting",
                         ![r].form = NoForm,
                         ![r].id = IF fn = "createCustomer" THEN uuid ELSE @,
                         ![r].data = IF fn \in InvoiceActions
                                     THEN [v.data EXCEPT
                                             !.amountInCents = AmountInCents(v.data.amount),
                                             !.date = IF fn = "createInvoice" THEN today ELSE 0]
                                     ELSE v.data,
                         ![r].awaited = "pending",
                         ![r].effects = Append(@, Effect("sql", StatementKind(fn)))]
    /\ UNCHANGED <<invoices, customers, stale, today, ncalls>>

\* the store executes the awaited statement
StatementApplies(r) ==
    /\ req[r].pc = "Persisting" /\ req[r].awaited = "pending"
    /\ AllQuiet
    /\ LET fn == req[r].fn
           id == req[r].id
           d == req[r].data
       IN CASE fn = "createInvoice" ->
                 /\ \E newId \in InvoiceIds \ DOMAIN invoices :
                      invoices' = InsertInvoice(invoices, newId, d)
                 /\ UNCHANGED customers
            [] fn = "updateInvoice" ->
                 /\ invoices' = UpdateInvoiceRow(invoices, id, d)
                 /\ UNCHANGED customers
            [] fn = "deleteInvoice" ->
                 /\ invoices' = DeleteInvoiceRow(invoices, id)
                 /\ UNCHANGED customers
            [] fn = "createCustomer" ->
                 /\ customers' = InsertCustomer(customers, id, d)
                 /\ UNCHANGED invoices
            [] fn = "updateCustomer" ->
                 /\ customers' = UpdateCustomerRow(customers, id, d)
                 /\ UNCHANGED invoices
    /\ req' = [req EXCEPT ![r].awaited = "ok",
                          ![r].wrote = (invoices' # invoices \/ customers' # customers)]
    /\ UNCHANGED <<stale, today, ncalls>>

\* the store rejects the statement, or cannot be reached: the awaited promise
\* rejects and catch (error) { return { message } } runs
StatementFails(r) ==
    /\ req[r].pc = "Persisting" /\ req[r].awaited = "pending"
    /\ AllQuiet
    /\ req' = [req EXCEPT ![r] = [Ended(@, "PersistenceFailed",
                                          MessageResult(DatabaseErrorMessage(req[r].fn)))
                                    EXCEPT !.awaited = "error"]]
    /\ UNCHANGED <<invoices, customers, stale, today, ncalls>>

\* Revalidate without waiting for the statement: the await is missing
RevalidateUnawaited(r) ==
    /\ req[r].pc = "Persisting" /\ req[r].awaited \in {"pending", "ok"}
    /\ Quiet(r)
    /\ stale' = stale \cup {RevalidatedPath(req[r].fn)}
    /\ req' = [req EXCEPT ![r].pc = "Invalidated",
                          ![r].effects = Append(@, Effect("revalidatePath",
                                                          RevalidatedPath(req[r].fn)))]
    /\ UNCHANGED <<invoices, customers, today, ncalls>>

\* revalidatePath(path) after the statement succeeded
Revalidate(r) ==
    /\ req[r].pc = "Persisting" /\ req[r].awaited = "ok"
    /\ Quiet(r)
    /\ stale' = stale \cup {RevalidatedPath(req[r].fn)}
    /\ req' = [req EXCEPT ![r].pc = "Invalidated",
                          ![r].effects = Append(@, Effect("revalidatePath",
                                                          RevalidatedPath(req[r].fn)))]
    /\ UNCHANGED <<invoices, customers, today, ncalls>>

\* redirect(path): the last statement of the create and update actions
Redirect(r) ==
    /\ req[r].pc = "Invalidated" /\ req[r].fn \in FormActions
    /\ req' = [req EXCEPT
                 ![r] = [Ended(@, "Redirected", RedirectResult(RedirectPath(req[r].fn)))
                           EXCEPT !.effects = Append(@, Effect("redirect",
                                                               RedirectPath(req[r].fn)))]]
    /\ UNCHANGED <<invoices, customers, stale, today, ncalls>>

\* deleteInvoice leaves its try block and ends
ReturnFromDelete(r) ==
    /\ req[r].pc = "Invalidated" /\ req[r].fn = "deleteInvoice"
    /\ req' = [req EXCEPT ![r] = Ended(@, "Returned", UndefinedResult)]
    /\ UNCHANGED <<invoices, customers, stale, today, ncalls>>

\* revalidatePath throws: deleteInvoice calls it inside its try block, the other
\* actions after theirs
RevalidateThrows(r) ==
    /\ req[r].pc = "Persisting" /\ req[r].awaited = "ok"
    /\ Quiet(r)
    /\ req' = [req EXCEPT
                 ![r] = [(IF req[r].fn = "deleteInvoice"
                          THEN Ended(@, "PersistenceFailed",
                                     MessageResult(DatabaseErrorMessage(req[r].fn)))
                          ELSE Ended(@, "Thrown", ThrowResult))
                           EXCEPT !.effects = Append(@, Effect("revalidatePath throws",
                                                               RevalidatedPath(req[r].fn)))]]
    /\ UNCHANGED <<invoices, customers, stale, today, ncalls>>

\* what signIn('credentials', formData) does
SignInOutcomes == {"ok", "CredentialsSignin", "CallbackRouteError", "AccessDenied", "notAuthError"}
AuthErrorTypes == {"CredentialsSignin", "CallbackRouteError", "AccessDenied"}

\* authenticate(prevState, formData) is entered and awaits signIn
CallAuthenticate(r) ==
    /\ Start(r)
    /\ req' = [req EXCEPT ![r] = [Idle EXCEPT !.pc = "SigningIn", !.fn = "authenticate",
                                              !.effects = <<Effect("signIn", "credentials")>>]]
    /\ UNCHANGED <<invoices, customers, stale, today>>

\* AuthenticateResult without the final throw error: every error becomes a string
AuthenticateResultSwallow(outcome) ==
    IF outcome = "ok" THEN UndefinedResult
    ELSE IF outcome = "CredentialsSignin" THEN StringResult("Invalid credentials.")
    ELSE StringResult("Something went wrong.")

\* the catch block of authenticate
AuthenticateResult(outcome) ==
    IF outcome = "ok" THEN UndefinedResult
    ELSE IF outcome \in AuthErrorTypes
         THEN IF outcome = "CredentialsSignin" THEN StringResult("Invalid credentials.")
              ELSE StringResult("Something went wrong.")
         ELSE ThrowResult

\* signIn settles
SignInSettles(r) ==
    /\ req[r].pc = "SigningIn"
    /\ Quiet(r)
    /\ \E outcome \in SignInOutcomes :
         req' = [req EXCEPT
                   ![r] = [Ended(@, IF AuthenticateResult(outcome).kind = "throw"
                                    THEN "Thrown" ELSE "Returned",
                                 AuthenticateResult(outcome))
                             EXCEPT !.awaited = outcome]]
    /\ UNCHANGED <<invoices, customers, stale, today, ncalls>>

\* the caller has the outcome; the request is over
Respond(r) ==
    /\ req[r].pc \in Terminal
    /\ req' = [req EXCEPT ![r] = Idle]
    /\ UNCHANGED <<invoices, customers, stale, today, ncalls>>

\* midnight passes
Tick ==
    /\ today < MaxDay
    /\ AllQuiet
    /\ today' = today + 1
    /\ UNCHANGED <<invoices, customers, stale, req, ncalls>>

\* ---------------------------------------------------------- specification
ValidInvoiceRow(row) == row.amount > 0 /\ row.status \in InvoiceStatuses

InitInvoices ==
    {"i1" :> [customer_id |-> "c1", amount |-> 1000 * Scale, status |-> "pending", date |-> 1]}
InitCustomers ==
    {"c1" :> [name |-> <<"b", "o", "b">>, email |-> <<"b", "@", "b", ".", "c">>]}

Init ==
    /\ invoices \in InitInvoices
    /\ customers \in InitCustomers
    /\ stale = {}
    /\ today = 1
    /\ req = [r \in Requests |-> Idle]
    /\ ncalls = 0

Next ==
    \/ \E r \in Requests : CallCreateInvoice(r)
    \/ \E r \in Requests : CallUpdateInvoice(r)
    \/ \E r \in Requests : CallDeleteInvoice(r)
    \/ \E r \in Requests : CallCreateCustomer(r)
    \/ \E r \in Requests : CallUpdateCustomer(r)
    \/ \E r \in Requests : CallAuthenticate(r)
    \/ \E r \in Requests : ValidationFails(r)
    \/ \E r \in Requests : ValidationPasses(r)
    \/ \E r \in Requests : StatementApplies(r)
    \/ \E r \in Requests : StatementFails(r)
    \/ \E r \in Requests : Revalidate(r)
    \/ \E r \in Requests : Redirect(r)
    \/ \E r \in Requests : ReturnFromDelete(r)
    \/ \E r \in Requests : SignInSettles(r)
    \/ \E r \in Requests : Respond(r)
    \/ Tick

\* the collaborators keep their contract: revalidatePath returns
Spec == Init /\ [][Next]_vars

NextFault == Next \/ \E r \in Requests : RevalidateThrows(r)

\* revalidatePath may throw
SpecFault == Init /\ [][NextFault]_vars

\* ----------------------------------------------------------------- claims
Stepped(r) == req'[r] # req[r]
LastEffect(rec) == rec.effects[Len(rec.effects)]
Issued(r) == Len(req'[r].effects) > Len(req[r].effects)

C1_Transitions ==
    {<<"Idle", "Validating">>, <<"Validating", "ValidationFailed">>,
     <<"Validating", "Persisting">>, <<"Persisting", "Persisting">>,
     <<"Persisting", "PersistenceFailed">>, <<"Persisting", "Invalidated">>,
     <<"Invalidated", "Redirected">>}
C1_Step(r) ==
    LET a == req[r]
        b == req'[r]
    IN (Stepped(r) /\ b.fn \in FormActions) =>
         /\ <<a.pc, b.pc>> \in C1_Transitions
         /\ b.pc \in Terminal => b.pc \in {"ValidationFailed", "PersistenceFailed", "Redirected"}
         /\ b.pc = "ValidationFailed" =>
              b.result.kind = "object" /\ b.result.hasErrors /\ AnyError(b.result.errors)
         /\ b.pc = "PersistenceFailed" =>
              /\ b.result.kind = "object" /\ ~b.result.hasErrors /\ b.result.message # ""
              /\ ~b.wrote
         /\ b.pc = "Redirected" => b.result.kind = "redirect"
         /\ (Issued(r) /\ LastEffect(b).call = "sql") =>
              /\ a.pc = "Validating" /\ SafeParse(a.fn, a.form).success
              /\ a.effects = <<>>
         /\ (Issued(r) /\ LastEffect(b).call = "revalidatePath") =>
              /\ a.awaited = "ok"
              /\ Len(a.effects) = 1 /\ a.effects[1].call = "sql"
         /\ (Issued(r) /\ LastEffect(b).call = "redirect") =>
              /\ a.pc = "Invalidated"
              /\ Len(a.effects) = 2 /\ a.effects[2].call = "revalidatePath"
         /\ (invoices' # invoices \/ customers' # customers) =>
              Len(a.effects) = 1 /\ a.effects[1].call = "sql"

\* C1: every submission to createInvoice, updateInvoice, createCustomer or
\* updateCustomer moves Idle -> Validating -> {ValidationFailed | Persisting} ->
\* {PersistenceFailed | Invalidated -> Redirected}; it ends in ValidationFailed with
\* field errors, in PersistenceFailed with a message, or in Redirected; the statement
\* is issued only after validation succeeded, the path is invalidated only after the
\* statement succeeded, and the redirect comes only after the invalidation.
C1_SubmissionLifecycle == [][\A r \in Requests : C1_Step(r)]_vars

\* a create or update submission that ran the whole course
C1_Witness ==
    \E r \in Requests :
        /\ req[r].fn \in FormActions /\ req[r].pc = "Redirected"
        /\ [i \in 1..3 |-> req[r].effects[i].call] = <<"sql", "revalidatePath", "redirect">>

NonPositiveAmounts == {Null, Str(<<>>), Str(<<"0">>), Str(<<"-", "1">>)}
OutsideStatuses == {Null, Str("draft")}
C2_Step(r) ==
    LET a == req[r]
        b == req'[r]
        rejected(field) ==
            /\ b.pc = "ValidationFailed"
            /\ b.result.hasErrors /\ HasError(b.result.errors, field)
            /\ b.effects = <<>> /\ ~b.wrote
            /\ UNCHANGED <<invoices, customers, stale>>
    IN (Stepped(r) /\ a.pc = "Validating" /\ a.fn \in {"createInvoice", "updateInvoice"}) =>
         /\ a.form.amount \in NonPositiveAmounts => rejected("amount")
         /\ a.form.status \in OutsideStatuses => rejected("status")

\* C2: a createInvoice or updateInvoice submission whose amount is <= 0, missing or
\* empty, or whose status is not pending or paid, fails validation with a field
\* error on amount, respectively status; no statement is executed, nothing is
\* invalidated and no redirect is issued.
C2_InvalidInvoiceRejected ==
    [][\A r \in Requests :
         /\ C2_Step(r)
         /\ (req[r].pc = "ValidationFailed" /\ Stepped(r)) =>
              (req'[r] = Idle /\ UNCHANGED <<invoices, customers, stale>>)]_vars

\* an updateInvoice submission rejected for its amount
C2_Witness ==
    \E r \in Requests :
        /\ req[r].fn = "updateInvoice" /\ req[r].pc = "ValidationFailed"
        /\ req[r].result.errors["amount"] = <<"Please enter an amount greater than $0.">>
        /\ req[r].effects = <<>>

DatabaseErrorMessages == {DatabaseErrorMessage(fn) : fn \in StorageActions}
\* the words of the messages the catch blocks return
MessageWords(msg) ==
    CASE msg = "Database Error: Failed to Create Invoice." ->
           <<"Database", "Error", "Failed", "to", "Create", "Invoice">>
      [] msg = "Database Error: Failed to Update Invoice." ->
           <<"Database", "Error", "Failed", "to", "Update", "Invoice">>
      [] msg = "Database Error: Failed to Delete Invoice." ->
           <<"Database", "Error", "Failed", "to", "Delete", "Invoice">>
      [] msg = "Database Error: Failed to Add Customer." ->
           <<"Database", "Error", "Failed", "to", "Add", "Customer">>
      [] OTHER -> <<>>
Says(msg, words) == \E i \in 1..Len(MessageWords(msg)) : MessageWords(msg)[i] \in words
EntityWord(fn) == IF fn \in CustomerActions THEN "Customer" ELSE "Invoice"
OperationWords(fn) ==
    CASE fn \in {"createInvoice", "createCustomer"} -> {"Create", "Add"}
      [] fn \in {"updateInvoice", "updateCustomer"} -> {"Update"}
      [] fn = "deleteInvoice" -> {"Delete"}

\* C3: a storage failure of createInvoice, updateInvoice, deleteInvoice,
\* createCustomer or updateCustomer is returned as an object holding one message and
\* no field errors, and the message names the operation and the entity type of the
\* action that failed; for updateInvoice it is "Database Error: Failed to Update
\* Invoice.".
C3_StorageFailureNamesAction ==
    \A r \in Requests :
        (req[r].fn \in StorageActions /\ req[r].pc = "PersistenceFailed") =>
            /\ req[r].result.kind = "object" /\ ~req[r].result.hasErrors
            /\ Says(req[r].result.message, OperationWords(req[r].fn))
            /\ Says(req[r].result.message, {EntityWord(req[r].fn)})
            /\ req[r].fn = "updateInvoice" =>
                 req[r].result.message = "Database Error: Failed to Update Invoice."

ExpectedPath(fn) ==
    IF fn \in CustomerActions THEN "/dashboard/customers" ELSE "/dashboard/invoices"
Persisted(r) == req[r].fn \in StorageActions /\ req[r].pc \in Terminal /\ req[r].awaited = "ok"
MarkedThenRedirected(r) ==
    /\ req[r].pc = "Redirected"
    /\ req[r].result = RedirectResult(ExpectedPath(req[r].fn))
    /\ Len(req[r].effects) = 3
    /\ req[r].effects[2] = Effect("revalidatePath", ExpectedPath(req[r].fn))
    /\ req[r].effects[3] = Effect("redirect", ExpectedPath(req[r].fn))
    /\ ExpectedPath(req[r].fn) \in stale
MarkedThenReturned(r) ==
    /\ req[r].pc = "Returned"
    /\ req[r].result = UndefinedResult
    /\ Len(req[r].effects) = 2
    /\ req[r].effects[2] = Effect("revalidatePath", ExpectedPath(req[r].fn))
    /\ ExpectedPath(req[r].fn) \in stale

\* C4 as stated: on successful persistence every storage-writing action, deleteInvoice
\* among them, marks one page path stale and then redirects to that same path,
\* /dashboard/invoices for invoice actions and /dashboard/customers for customer
\* actions, returning no value.
C4_EveryActionRedirects == \A r \in Requests : Persisted(r) => MarkedThenRedirected(r)

\* C4 as amended: on successful persistence createInvoice, updateInvoice,
\* createCustomer and updateCustomer mark their page path stale and then redirect to
\* that same path; deleteInvoice marks /dashboard/invoices stale and returns
\* undefined without a redirect.
C4_RedirectExceptDelete ==
    \A r \in Requests :
        Persisted(r) =>
            IF req[r].fn = "deleteInvoice" THEN MarkedThenReturned(r) ELSE MarkedThenRedirected(r)

\* a customer action that persisted and was redirected to the customers page
C4_Witness ==
    \E r \in Requests :
        /\ req[r].fn = "createCustomer" /\ Persisted(r) /\ req[r].wrote
        /\ req[r].result = RedirectResult("/dashboard/customers")

WholeCents(amount) == amount % Scale = 0
C5_Step(r) ==
    LET a == req[r]
        b == req'[r]
    IN (Stepped(r) /\ a.fn = "createInvoice") =>
         /\ (a.pc = "Validating" /\ SafeParse(a.fn, a.form).success) =>
              /\ b.pc = "Persisting"
              /\ b.data.date = today
              /\ b.data.amount = ParseNumber(a.form.amount).v
              /\ b.data.status = a.form.status.text
              /\ b.data.customerId = a.form.customerId.text
         /\ (a.awaited = "pending" /\ b.awaited = "ok") =>
              \E newId \in InvoiceIds \ DOMAIN invoices :
                  /\ DOMAIN invoices' = DOMAIN invoices \cup {newId}
                  /\ \A k \in DOMAIN invoices : invoices'[k] = invoices[k]
                  /\ WholeCents(invoices'[newId].amount)
                  /\ invoices'[newId].amount = 100 * a.data.amount
                  /\ a.data.amount = 45 * Scale => invoices'[newId].amount = 4500 * Scale
                  /\ invoices'[newId].status = a.data.status
                  /\ invoices'[newId].customer_id = a.data.customerId
                  /\ invoices'[newId].date = a.data.date
         /\ (a.pc = "Persisting" /\ a.awaited = "ok") =>
              b.pc = "Invalidated" /\ "/dashboard/invoices" \in stale'
         /\ a.pc = "Invalidated" => b.result = RedirectResult("/dashboard/invoices")

\* C5: for every valid submission to createInvoice the statement inserts exactly one
\* row whose amount is the submitted amount as an integer number of cents (100 x
\* amount, "45.00" -> 4500), whose status and customer_id are the submitted ones and
\* whose date is the day of the submission; then /dashboard/invoices is invalidated
\* and the caller is redirected to it.
C5_RowInWholeCents == [][\A r \in Requests : C5_Step(r)]_vars

NoMatchActions == {"updateInvoice", "updateCustomer", "deleteInvoice"}
Matches(rec) ==
    IF rec.fn \in CustomerActions THEN rec.id \in DOMAIN customers ELSE rec.id \in DOMAIN invoices
C6_Step(r) ==
    LET a == req[r]
        b == req'[r]
    IN (Stepped(r) /\ a.fn \in NoMatchActions) =>
         /\ (a.awaited = "pending" /\ b.awaited = "ok" /\ ~Matches(a)) =>
              /\ UNCHANGED <<invoices, customers>>
              /\ ~b.wrote /\ b.pc = "Persisting"
         /\ (a.pc = "Persisting" /\ a.awaited = "ok") =>
              /\ b.pc = "Invalidated"
              /\ ExpectedPath(a.fn) \in stale'
              /\ UNCHANGED <<invoices, customers>>
         /\ a.pc = "Invalidated" =>
              /\ b.result.kind \in {"redirect", "undefined"}
              /\ b.result.message \notin DatabaseErrorMessages
              /\ UNCHANGED <<invoices, customers>>

\* C6: updateInvoice, updateCustomer and deleteInvoice whose identifier matches no
\* row are silent no-ops: the statement leaves both tables as they were, the action
\* goes on to invalidate its page path, and what it returns is no error.
C6_NoMatchIsSilent == [][\A r \in Requests : C6_Step(r)]_vars

\* an updateInvoice for an identifier no row has, past its statement and invalidated
C6_Witness ==
    \E r \in Requests :
        /\ req[r].fn = "updateInvoice" /\ req[r].id = "i9"
        /\ req[r].pc = "Invalidated" /\ ~req[r].wrote
        /\ "/dashboard/invoices" \in stale

C7_Step(r) ==
    LET a == req[r]
        b == req'[r]
    IN (Stepped(r) /\ a.fn = "createCustomer") =>
         /\ (a.awaited = "pending" /\ b.awaited = "ok") =>
              /\ a.id \in DOMAIN customers => (customers' = customers /\ ~b.wrote)
              /\ a.id \notin DOMAIN customers =>
                   /\ DOMAIN customers' = DOMAIN customers \cup {a.id}
                   /\ customers'[a.id] = [name |-> a.data.name, email |-> a.data.email]
              /\ \A k \in DOMAIN customers : customers'[k] = customers[k]
              /\ \A f \in CustomerForms :
                   ParseCustomer(f).success =>
                       InsertCustomer(customers', a.id, ParseCustomer(f).data) = customers'
              /\ b.pc = "Persisting"
         /\ (a.pc = "Persisting" /\ a.awaited = "ok") =>
              b.pc = "Invalidated" /\ "/dashboard/customers" \in stale'
         /\ a.pc = "Invalidated" => b.result = RedirectResult("/dashboard/customers")

\* C7: createCustomer whose generated identifier is that of an existing row changes
\* nothing (the row keeps its name and email, no row is added) and raises no error:
\* the action invalidates and redirects to /dashboard/customers as on success;
\* inserting again under the same identifier leaves the table as the first insert
\* left it.
C7_ConflictIsIgnored == [][\A r \in Requests : C7_Step(r)]_vars

\* a createCustomer that drew the identifier of the existing row and went on
C7_Witness ==
    \E r \in Requests :
        /\ req[r].fn = "createCustomer" /\ req[r].pc = "Invalidated" /\ req[r].id = "c1"
        /\ ~req[r].wrote
        /\ customers["c1"].name # req[r].data.name

\* C8: authenticate returns "Invalid credentials." for an authentication error of the
\* invalid-credentials category, "Something went wrong." for any other authentication
\* error, lets an error that is no authentication error propagate, and returns no
\* message after a successful sign-in.
C8_AuthenticateOutcomes ==
    \A r \in Requests :
        (req[r].fn = "authenticate" /\ req[r].pc \in Terminal) =>
            /\ req[r].awaited = "CredentialsSignin" =>
                 req[r].pc = "Returned" /\ req[r].result = StringResult("Invalid credentials.")
            /\ req[r].awaited \in {"CallbackRouteError", "AccessDenied"} =>
                 req[r].pc = "Returned" /\ req[r].result = StringResult("Something went wrong.")
            /\ req[r].awaited = "notAuthError" =>
                 req[r].pc = "Thrown" /\ req[r].result.kind = "throw"
            /\ req[r].awaited = "ok" =>
                 /\ req[r].pc = "Returned"
                 /\ req[r].result.kind = "undefined" /\ req[r].result.message = ""

\* an error that is no authentication error has left authenticate
C8_Witness ==
    \E r \in Requests :
        req[r].fn = "authenticate" /\ req[r].awaited = "notAuthError" /\ req[r].pc = "Thrown"

\* C9: from a store whose invoice rows all have amount > 0 and a status in
\* {pending, paid}, every interleaving of createInvoice, updateInvoice and
\* deleteInvoice invocations leaves every invoice row with amount > 0 and a status
\* in {pending, paid}.
C9_InvoiceRowsStayValid == \A k \in DOMAIN invoices : ValidInvoiceRow(invoices[k])

\* a row was inserted and the first row was rewritten
C9_Witness ==
    /\ "i2" \in DOMAIN invoices
    /\ "i1" \in DOMAIN invoices /\ invoices["i1"].status = "paid"

\* C10: whenever an action returns a "Database Error: ..." message, the statement of
\* that invocation did not take effect; a failure of the cache invalidation after a
\* successful statement is not reported as a database error.
C10_DatabaseErrorMeansNoWrite ==
    \A r \in Requests :
        (req[r].result.kind = "object" /\ ~req[r].result.hasErrors
           /\ req[r].result.message \in DatabaseErrorMessages) =>
            ~req[r].wrote

====
